---- MODULE Spec2Model ----
(***************************************************************************)
(* urlcache: a file on disk kept current with the data behind a URL.       *)
(*                                                                         *)
(* The model follows the scheme-based poller (Open, readInitial,           *)
(* keepCurrent, checkUpdates, updateFromWeb, saveToTmpFile, saveToFile and *)
(* the three cacheScheme implementations).  Every system call of           *)
(* updateFromWeb that touches the cache path or the temporary path is a    *)
(* step of its own, so that the states between them are the states an      *)
(* external reader of the cache path can observe.                          *)
(*                                                                         *)
(* Environment: one HTTP server holding a versioned resource, a callback   *)
(* (onUpdate) that accepts or rejects what it is given, and a file system  *)
(* and a network whose operations may fail.                                *)
(***************************************************************************)
EXTENDS Integers, Sequences, FiniteSets, TLC

\* Number of versions the remote resource goes through (1..MaxVal).
MaxVal == 2
\* Saturation value of the history counters (callback invocations, cycles
\* completed since the last remote change).
SatCount == 3
\* The checkInterval arguments given to Open when the interval alone is
\* examined: -MaxInterval..MaxInterval.
MaxInterval == 3
\* How many times the server changes the validators it sends.
MaxHeaderChanges == 1

VARIABLES
  checkInterval,\* Open's checkInterval, then c.checkInterval
  pc,           \* position of the program (Open, readInitial, the loop's steps)
  scheme,       \* keepCurrent's scheme variable: [kind, token]
  initialDate,  \* readInitial's result, passed to keepCurrent
  currentDate,  \* readInitial's currentDate; in the date-comparing poller also
                \* keepCurrent's currentDate, the date of the content it holds
  fs,           \* the files at the cache path and at the temporary path
  readable,     \* whether os.Open(c.cacheFile) succeeds at startup
  val,          \* server: current version of the resource
  hdrs,         \* server: which validators it sends, subset of {"lm","etag"}
  lmIn304,      \* server: whether its 304 responses carry Last-Modified (a
                \* server that also sends ETag may leave it out)
  resp,         \* the response of this cycle's GET: [status, lm, etag, body]
  data,         \* updateFromWeb's data: [some, bytes]
  ret,          \* what updateFromWeb returned in this cycle: "none","nil","err"
  cycle,        \* history of this cycle: the cache file, the scheme's kind and
                \* token when it began, the callback's invocations and result,
                \* the file operations, whether a HEAD was sent, the GETs sent
                \* and the request of the last one, and of the cycle before
  hist          \* history of the run: the argument given to Open, whether a
                \* cache file existed, the callback's invocations, the data
                \* last read and last accepted, whether they were committed,
                \* the requests issued and answered, the cycles since the last
                \* remote change and since the last failure

vars == <<checkInterval, pc, scheme, initialDate, currentDate, fs, readable, val, hdrs, lmIn304, resp,
          data, ret, cycle, hist>>

\* The file at c.cacheFile and the file at c.cacheFile + "_temp".
cacheFile == fs.cache
tmpFile == fs.temp

----------------------------------------------------------------------------
(* Values *)

Min(a, b) == IF a < b THEN a ELSE b

\* Files: absent, or present with a sequence of bytes.
NoFile == [exists |-> FALSE, data |-> <<>>]
File(d) == [exists |-> TRUE, data |-> d]

\* Optional byte sequences.
None == [some |-> FALSE, bytes |-> <<>>]
Some(d) == [some |-> TRUE, bytes |-> d]

\* Header values.  A header that is not set reads as the empty string.
Empty == [k |-> "empty", v |-> 0]
\* time.Time.Format(http.TimeFormat): the textual form of a date.
Format(d) == [k |-> "date", v |-> d]
\* An entity tag.
Tag(v) == [k |-> "tag", v |-> v]

\* The zero time.Time (var currentDate time.Time).
ZeroTime == 0

\* The body the server serves for version v (two bytes, so that it has
\* strict prefixes: the empty one and a one-byte one).
Body(v) == <<v, v>>
\* The date the server reports as Last-Modified for version v.  Dates are
\* ordered like the naturals; version v + 1 is always later than version v.
LMDate(v) == 2 * v
\* The modification time of a cache file found at startup: written by an
\* earlier run, after version 1 was published and before any later version.
CacheModTime == LMDate(1) + 1
\* The content of a cache file found at startup.
OldContent == <<0, 0>>

\* The strict prefixes of d: what a failed Write may leave behind.
StrictPrefixes(d) == { SubSeq(d, 1, n) : n \in 0..(Len(d) - 1) }

\* A request without conditional headers.
NoReq == [ims |-> Empty, inm |-> Empty]
NoResp == [status |-> 0, lm |-> Empty, etag |-> Empty, body |-> <<>>]
NilScheme == [kind |-> "nil", token |-> Empty]
\* No parsed Last-Modified: the probe failed or its header did not parse.
NoDate == [ok |-> FALSE, date |-> ZeroTime]

----------------------------------------------------------------------------
(* The server *)

\* The validators the server puts on a response for its current version.
ServerLM == IF "lm" \in hdrs THEN Format(LMDate(val)) ELSE Empty
ServerETag == IF "etag" \in hdrs THEN Tag(val) ELSE Empty

\* Whether a conditional request is answered 304 Not Modified.
NotModified(req) ==
  \/ /\ "etag" \in hdrs
     /\ req.inm = Tag(val)
  \/ /\ "lm" \in hdrs
     /\ req.ims.k = "date"
     /\ LMDate(val) <= req.ims.v

\* The server's answer to a GET.
ServerGet(req) ==
  IF NotModified(req)
    THEN [status |-> 304,
          lm     |-> IF lmIn304 THEN ServerLM ELSE Empty,
          etag   |-> ServerETag,
          body   |-> <<>>]
    ELSE [status |-> 200, lm |-> ServerLM, etag |-> ServerETag, body |-> Body(val)]

\* The server's configurations: it sends Last-Modified, ETag, both or
\* neither; one that sends both may leave Last-Modified out of a 304.
ServerConfig(h, in304) == in304 = ("lm" \in h) \/ h = {"lm", "etag"}

----------------------------------------------------------------------------
(* cacheScheme *)

\* Mutant: no conditional header is set.
prepareRequestNoToken(s) == NoReq

\* prepareRequest: the conditional headers the scheme sets on the request.
prepareRequest(s) ==
  [ims |-> IF s.kind = "lastModified" THEN s.token ELSE Empty,
   inm |-> IF s.kind = "etag" THEN s.token ELSE Empty]

\* onResponse: the scheme after it has seen the response.
onResponse(s, r) ==
  CASE s.kind = "lastModified" -> [s EXCEPT !.token = r.lm]
    [] s.kind = "etag"         -> [s EXCEPT !.token = r.etag]
    [] OTHER                   -> s

\* Mutant: ETag is looked at before Last-Modified.
SelectSchemeETagFirst(lm, etag, date) ==
  IF etag # Empty THEN [kind |-> "etag", token |-> Empty]
  ELSE IF lm # Empty THEN [kind |-> "lastModified", token |-> Format(date)]
  ELSE [kind |-> "noop", token |-> Empty]

\* checkUpdates' choice of scheme from the HEAD response's headers.
SelectScheme(lm, etag, date) ==
  IF lm # Empty THEN [kind |-> "lastModified", token |-> Format(date)]
  ELSE IF etag # Empty THEN [kind |-> "etag", token |-> Empty]
  ELSE [kind |-> "noop", token |-> Empty]

\* os.File.Stat: fails on a file that has been closed.
Stat(closed, modTime) ==
  IF closed THEN [err |-> TRUE, modTime |-> ZeroTime]
            ELSE [err |-> FALSE, modTime |-> modTime]

----------------------------------------------------------------------------
(* History bookkeeping *)

NewCycle == [startFile |-> fs.cache, startToken |-> Empty, startKind |-> "nil",
             cb |-> 0, cbRes |-> "none", fileOps |-> 0, fellBack |-> FALSE,
             probed |-> FALSE, gets |-> 0, req |-> NoReq, prevReq |-> NoReq,
             startDate |-> ZeroTime, lm |-> NoDate]

\* The cycle that begins with scheme s (after the probe, if there was one).
CycleOf(s, probed) ==
  [NewCycle EXCEPT !.startToken = s.token, !.startKind = s.kind,
                   !.probed = probed, !.prevReq = cycle.req]

\* The cycles without failure since a cycle that got new content and failed
\* at the callback or at the commit ("content"), plus one; 0 before any such
\* cycle.  Any failure and any remote change start the count again.
Heal(h, outcome) ==
  CASE outcome = "content" -> 1
    [] outcome = "fail"    -> IF h.heal >= 1 THEN 1 ELSE 0
    [] OTHER               -> IF h.heal >= 1 /\ ~h.stale
                                THEN Min(h.heal + 1, SatCount + 1)
                                ELSE h.heal

\* hist.pause before any cycle has ended.  Afterwards it is 0 from the end
\* of a cycle until the loop has slept, and then the time it slept.
NotYet == 0 - 1

\* The cycle ends (checkUpdates returns; keepCurrent goes to sleep).
EndCycle(h, outcome) ==
  [h EXCEPT !.sinceChange = IF h.stale THEN 0 ELSE Min(h.sinceChange + 1, SatCount),
            !.heal = Heal(h, outcome),
            !.pause = 0]

Called(h, d, ok) ==
  [h EXCEPT !.nCalls = Min(h.nCalls + 1, SatCount),
            !.lastRead = Some(d),
            !.lastAccepted = IF ok THEN Some(d) ELSE h.lastAccepted]

----------------------------------------------------------------------------
\* defaultCheckInterval (1 * time.Minute), in milliseconds.
defaultCheckInterval == 60000

\* The interval the tests give to Open (50 * time.Millisecond).
TestInterval == 50

\* The checkInterval arguments Open is given, in milliseconds.
Intervals == (0 - MaxInterval)..MaxInterval

\* Mutant: only a zero interval is replaced by the default.
EffectiveIntervalZeroOnly(d) == IF d = 0 THEN defaultCheckInterval ELSE d

\* Open, lines 29-31: the interval the loop sleeps for.
EffectiveInterval(d) == IF d <= 0 THEN defaultCheckInterval ELSE d

\* The state in which Open is called with one of the given intervals.
InitWith(intervals) ==
  /\ checkInterval \in intervals
  /\ pc = "open"
  /\ scheme = NilScheme
  /\ initialDate = ZeroTime
  /\ currentDate = ZeroTime
  /\ fs \in {[cache |-> f, temp |-> NoFile] : f \in {NoFile, File(OldContent)}}
  /\ readable \in BOOLEAN
  /\ (~cacheFile.exists => readable = FALSE)
  /\ val = 1
  /\ hdrs \in SUBSET {"lm", "etag"}
  /\ lmIn304 \in BOOLEAN
  /\ ServerConfig(hdrs, lmIn304)
  /\ resp = NoResp
  /\ data = None
  /\ ret = "none"
  /\ cycle = NewCycle
  /\ hist = [arg |-> checkInterval, hadFile |-> cacheFile.exists,
             initAccepted |-> FALSE,
             nCalls |-> 0, lastRead |-> None, lastAccepted |-> None,
             committed |-> FALSE, netStarted |-> FALSE, reached |-> FALSE,
             sinceChange |-> 0, stale |-> FALSE, failSince |-> FALSE,
             heal |-> 0, hdrChanges |-> 0, pause |-> NotYet]

\* Open is called with no interval (the default applies) or with the tests'.
Init == InitWith({0, TestInterval})

\* Open is called with any of the intervals.
InitIntervals == InitWith(Intervals)

\* Open: replace a non-positive interval by the default and create the cache
\* directory; on failure return the error, otherwise evaluate readInitial and
\* start keepCurrent.
Open ==
  /\ pc = "open"
  /\ checkInterval' = EffectiveInterval(checkInterval)
  /\ \E mkdirOK \in BOOLEAN :
       pc' = IF mkdirOK THEN "readInitial" ELSE "failed"
  /\ UNCHANGED <<currentDate, scheme, initialDate, fs, readable, val, hdrs, lmIn304, resp,
                 data, ret, cycle, hist>>

\* Mutant: the cache file is never opened.
OpenCacheFileNever(f, canOpen) == None

\* os.Open(c.cacheFile) and what the callback reads from the opened file.
OpenCacheFile(f, canOpen) == IF f.exists /\ canOpen THEN Some(f.data) ELSE None

\* readInitial: feed an existing cache file to onUpdate and take its date.
\* The file is closed (line 65) before Stat is called on it (line 67).
readInitial ==
  /\ pc = "readInitial"
  /\ LET file == OpenCacheFile(cacheFile, readable) IN
     IF file.some
       THEN \E cbOK \in BOOLEAN :
              LET st == Stat(TRUE, CacheModTime) IN
              /\ hist' = [Called(hist, file.bytes, cbOK) EXCEPT
                            !.committed = cbOK, !.initAccepted = cbOK]
              /\ initialDate' = IF cbOK /\ ~st.err THEN st.modTime ELSE ZeroTime
       ELSE /\ hist' = hist
            /\ initialDate' = ZeroTime
  /\ currentDate' = initialDate'
  /\ pc' = "checkUpdates"
  /\ UNCHANGED <<checkInterval, scheme, fs, readable, val, hdrs, lmIn304, resp, data, ret,
                 cycle>>

\* Mutant: a HEAD request in every cycle.
NeedProbeAlways(s) == TRUE

\* checkUpdates, line 87: a HEAD request only while there is no scheme.
NeedProbe(s) == s.kind = "nil"

\* Mutant: the HEAD request's error is ignored.
AfterHeadIgnoreErr(headOK) == "get"

\* checkUpdates' branch on the HEAD request's error (lines 90-93).
AfterHead(headOK) == IF headOK THEN "get" ELSE "sleep"

\* checkUpdates, up to the call of updateFromWeb: with no scheme yet, a HEAD
\* request and the choice of the scheme from its response.
checkUpdates ==
  /\ pc = "checkUpdates"
  /\ resp' = NoResp
  /\ data' = None
  /\ ret' = "none"
  /\ IF NeedProbe(scheme)
       THEN \E headOK \in BOOLEAN :
              /\ scheme' = IF headOK
                             THEN SelectScheme(ServerLM, ServerETag, initialDate)
                             ELSE scheme
              /\ pc' = AfterHead(headOK)
              /\ cycle' = CycleOf(scheme', TRUE)
              /\ LET h == [hist EXCEPT !.netStarted = TRUE,
                                       !.reached = hist.reached \/ headOK,
                                       !.stale = FALSE,
                                       !.failSince = hist.failSince \/ ~headOK]
                 IN hist' = IF pc' = "sleep" THEN EndCycle(h, "fail") ELSE h
       ELSE /\ scheme' = scheme
            /\ pc' = "get"
            /\ cycle' = CycleOf(scheme, FALSE)
            /\ hist' = [hist EXCEPT !.stale = FALSE]
  /\ UNCHANGED <<currentDate, checkInterval, initialDate, fs, readable, val, hdrs, lmIn304>>

\* Mutant: the 304 status is not checked, every response is treated as full.
AfterResponseNoCheck(r) == "readBody"

\* Mutant: every response is treated as not modified.
AfterResponseAlways304(r) == "sleep"

\* updateFromWeb's branch on the status of the response (line 123).
AfterResponse(r) == IF r.status = 304 THEN "sleep" ELSE "readBody"

\* Mutant: onResponse is called although the request failed.
GetOnResponseAnyway ==
  /\ pc = "get"
  /\ cycle' = [cycle EXCEPT !.gets = cycle.gets + 1,
                            !.req = prepareRequest(scheme)]
  /\ \E doOK \in BOOLEAN :
       /\ resp' = IF doOK THEN ServerGet(prepareRequest(scheme)) ELSE resp
       /\ scheme' = onResponse(scheme, resp')
       /\ pc' = IF doOK THEN AfterResponse(resp') ELSE "sleep"
       /\ ret' = IF ~doOK THEN "err" ELSE IF pc' = "sleep" THEN "nil" ELSE ret
       /\ LET h == [hist EXCEPT !.netStarted = TRUE,
                                !.reached = hist.reached \/ doOK,
                                !.failSince = hist.failSince \/ ~doOK]
          IN hist' = IF pc' = "sleep"
                       THEN EndCycle(h, IF doOK THEN "ok" ELSE "fail")
                       ELSE h
  /\ UNCHANGED <<currentDate, checkInterval, initialDate, fs, readable, val, hdrs, lmIn304, data>>

\* updateFromWeb, lines 115-125: the conditional GET, the scheme's
\* onResponse, and the return on 304 Not Modified.
Get ==
  /\ pc = "get"
  /\ cycle' = [cycle EXCEPT !.gets = cycle.gets + 1,
                            !.req = prepareRequest(scheme)]
  /\ \E doOK \in BOOLEAN :
       IF doOK
         THEN /\ resp' = ServerGet(prepareRequest(scheme))
              /\ scheme' = onResponse(scheme, resp')
              /\ pc' = AfterResponse(resp')
              /\ ret' = IF pc' = "sleep" THEN "nil" ELSE ret
              /\ LET h == [hist EXCEPT !.netStarted = TRUE, !.reached = TRUE]
                 IN hist' = IF pc' = "sleep" THEN EndCycle(h, "ok") ELSE h
         ELSE /\ resp' = resp
              /\ scheme' = scheme
              /\ pc' = "sleep"
              /\ ret' = "err"
              /\ hist' = EndCycle([hist EXCEPT !.netStarted = TRUE,
                                               !.failSince = TRUE], "fail")
  /\ UNCHANGED <<currentDate, checkInterval, initialDate, fs, readable, val, hdrs, lmIn304, data>>

\* ioutil.ReadAll(resp.Body): all of the body, or an error.
ReadAll(body, ok) == IF ok THEN Some(body) ELSE None

\* updateFromWeb, lines 129-132.
ReadBody ==
  /\ pc = "readBody"
  /\ \E readOK \in BOOLEAN :
       /\ data' = ReadAll(resp.body, readOK)
       /\ IF data'.some
            THEN /\ pc' = "callback"
                 /\ ret' = ret
                 /\ hist' = hist
            ELSE /\ pc' = "sleep"
                 /\ ret' = "err"
                 /\ hist' = EndCycle([hist EXCEPT !.failSince = TRUE], "fail")
  /\ UNCHANGED <<currentDate, checkInterval, scheme, initialDate, fs, readable, val, hdrs, lmIn304, resp,
                 cycle>>

\* Mutant: the callback's error is ignored.
AfterUpdateIgnoreErr(cbOK) == "openTmp"

\* updateFromWeb's branch on the callback's result (lines 134-136).
AfterUpdate(cbOK) == IF cbOK THEN "openTmp" ELSE "sleep"

\* updateFromWeb, lines 133-136: onUpdate is given the data.
Callback ==
  /\ pc = "callback"
  /\ \E cbOK \in BOOLEAN :
       /\ pc' = AfterUpdate(cbOK)
       /\ cycle' = [cycle EXCEPT !.cb = cycle.cb + 1,
                                 !.cbRes = IF cbOK THEN "ok" ELSE "err"]
       /\ ret' = IF pc' = "sleep" THEN "err" ELSE ret
       /\ LET h == [Called(hist, data.bytes, cbOK) EXCEPT
                      !.committed = IF cbOK THEN FALSE ELSE hist.committed,
                      !.failSince = hist.failSince \/ ~cbOK]
          IN hist' = IF pc' = "sleep" THEN EndCycle(h, "content") ELSE h
  /\ UNCHANGED <<currentDate, checkInterval, scheme, initialDate, fs, readable, val, hdrs, lmIn304, resp,
                 data>>

\* Mutant: the temporary file's name is the cache file's name.
TmpFileNameIsCache == "cache"

\* The two paths updateFromWeb writes to: c.cacheFile, and the name
\* saveToTmpFile builds from it (line 160).
CacheFileName == "cache"
TmpFileName == "temp"

\* Mutant: a short write is not reported.
saveToFileShortWrite(d, ok, n) == [file |-> File(SubSeq(d, 1, n)), err |-> FALSE]

\* saveToFile: write the data and close; a failed Write leaves a strict
\* prefix (its first n bytes) and is reported.
saveToFile(d, ok, n) ==
  [file |-> File(IF ok THEN d ELSE SubSeq(d, 1, n)), err |-> ~ok]

\* Mutant: the file is gone even when the removal reports an error.
RemoveResultAlwaysGone(f, ok) == NoFile

\* os.Remove of an existing file.
RemoveResult(f, ok) == IF ok THEN NoFile ELSE f

FileOp(c) == [c EXCEPT !.fileOps = c.fileOps + 1]

\* saveToTmpFile, lines 160-164: create or truncate the temporary file.  On
\* failure updateFromWeb falls back to the cache file itself (line 139).
OpenTmp ==
  /\ pc = "openTmp"
  /\ \E ok \in BOOLEAN :
       IF ok
         THEN /\ fs' = [fs EXCEPT ![TmpFileName] = File(<<>>)]
              /\ pc' = "writeTmp"
              /\ cycle' = FileOp(cycle)
         ELSE /\ fs' = fs
              /\ pc' = "openDst"
              /\ cycle' = [FileOp(cycle) EXCEPT !.fellBack = TRUE]
  /\ UNCHANGED <<currentDate, checkInterval, scheme, initialDate, readable, val, hdrs, lmIn304, resp, data,
                 ret, hist>>

\* saveToTmpFile, line 165: saveToFile on the temporary file.  On failure
\* updateFromWeb falls back to the cache file itself (line 139).
WriteTmp ==
  /\ pc = "writeTmp"
  /\ \E ok \in BOOLEAN, n \in 0..(Len(data.bytes) - 1) :
       LET r == saveToFile(data.bytes, ok, n) IN
       /\ fs' = [fs EXCEPT ![TmpFileName] = r.file]
       /\ pc' = IF r.err THEN "openDst" ELSE "remove"
       /\ cycle' = [FileOp(cycle) EXCEPT !.fellBack = r.err]
  /\ UNCHANGED <<currentDate, checkInterval, scheme, initialDate, readable, val, hdrs, lmIn304, resp, data,
                 ret, hist>>

\* updateFromWeb, lines 141-144: the fallback opens the cache file with
\* O_CREATE|O_TRUNC.
OpenDst ==
  /\ pc = "openDst"
  /\ \E ok \in BOOLEAN :
       IF ok
         THEN /\ fs' = [fs EXCEPT ![CacheFileName] = File(<<>>)]
              /\ pc' = "writeDst"
              /\ ret' = ret
              /\ hist' = hist
         ELSE /\ fs' = fs
              /\ pc' = "sleep"
              /\ ret' = "err"
              /\ hist' = EndCycle(hist, "content")
  /\ cycle' = FileOp(cycle)
  /\ UNCHANGED <<currentDate, checkInterval, scheme, initialDate, readable, val, hdrs, lmIn304, resp, data>>

\* updateFromWeb, line 145: the fallback's saveToFile on the cache file.
WriteDst ==
  /\ pc = "writeDst"
  /\ \E ok \in BOOLEAN, n \in 0..(Len(data.bytes) - 1) :
       LET r == saveToFile(data.bytes, ok, n) IN
       /\ fs' = [fs EXCEPT ![CacheFileName] = r.file]
       /\ ret' = IF r.err THEN "err" ELSE "nil"
       /\ hist' = EndCycle([hist EXCEPT !.committed = ~r.err],
                           IF r.err THEN "content" ELSE "ok")
  /\ pc' = "sleep"
  /\ cycle' = FileOp(cycle)
  /\ UNCHANGED <<currentDate, checkInterval, scheme, initialDate, readable, val, hdrs, lmIn304, resp, data>>

\* updateFromWeb, lines 148-151: remove the old cache file; its absence is
\* tolerated, any other error ends the cycle.
Remove ==
  /\ pc = "remove"
  /\ \E ok \in BOOLEAN :
       /\ fs' = [fs EXCEPT ![CacheFileName] = RemoveResult(fs[CacheFileName], ok)]
       /\ IF ok \/ ~fs[CacheFileName].exists
            THEN /\ pc' = "rename"
                 /\ ret' = ret
                 /\ hist' = hist
            ELSE /\ pc' = "sleep"
                 /\ ret' = "err"
                 /\ hist' = EndCycle(hist, "content")
  /\ cycle' = FileOp(cycle)
  /\ UNCHANGED <<currentDate, checkInterval, scheme, initialDate, readable, val, hdrs, lmIn304, resp, data>>

\* updateFromWeb, lines 152-156: rename the temporary file to the cache file.
Rename ==
  /\ pc = "rename"
  /\ \E ok \in BOOLEAN :
       IF ok /\ fs[TmpFileName].exists
         THEN /\ fs' = [[fs EXCEPT ![TmpFileName] = NoFile]
                           EXCEPT ![CacheFileName] = fs[TmpFileName]]
              /\ ret' = "nil"
              /\ hist' = EndCycle([hist EXCEPT !.committed = TRUE], "ok")
         ELSE /\ fs' = fs
              /\ ret' = "err"
              /\ hist' = EndCycle(hist, "content")
  /\ pc' = "sleep"
  /\ cycle' = FileOp(cycle)
  /\ UNCHANGED <<currentDate, checkInterval, scheme, initialDate, readable, val, hdrs, lmIn304, resp, data>>

\* Mutant: the loop ends when updateFromWeb has returned an error.
SleepUnlessErr ==
  /\ pc = "sleep"
  /\ ret # "err"
  /\ pc' = "checkUpdates"
  /\ hist' = [hist EXCEPT !.pause = checkInterval]
  /\ UNCHANGED <<currentDate, checkInterval, scheme, initialDate, fs, readable, val, hdrs, lmIn304, resp,
                 data, ret, cycle>>

\* Mutant: after an error the next cycle starts at once.
SleepSkippedAfterErr ==
  /\ pc = "sleep"
  /\ pc' = "checkUpdates"
  /\ hist' = [hist EXCEPT !.pause = IF ret = "err" THEN 0 ELSE checkInterval]
  /\ UNCHANGED <<currentDate, checkInterval, scheme, initialDate, fs, readable, val, hdrs, lmIn304, resp,
                 data, ret, cycle>>

\* keepCurrent, line 82: time.Sleep(c.checkInterval), then the next cycle.
Sleep ==
  /\ pc = "sleep"
  /\ pc' = "checkUpdates"
  /\ hist' = [hist EXCEPT !.pause = checkInterval]
  /\ UNCHANGED <<currentDate, checkInterval, scheme, initialDate, fs, readable, val, hdrs, lmIn304, resp,
                 data, ret, cycle>>

----------------------------------------------------------------------------
(* The date-comparing poller (src/urlcache.go): checkUpdates takes the date
   of the content held and returns the new one.  Open, readInitial and
   updateFromWeb from the body read on are as above. *)

\* lastModified: http.ParseTime of the Last-Modified header.
ParseTime(h) ==
  IF h.k = "date" THEN [ok |-> TRUE, date |-> h.v] ELSE NoDate

\* time.Time.After.
After(a, b) == a > b

\* Mutant: the date advances although updateFromWeb returned an error.
NewDateIgnoreErr(prevDate, lm, r) == IF r = "none" THEN prevDate ELSE lm

\* checkUpdates' result: lm after updateFromWeb has succeeded (r = "nil"),
\* prevDate when it failed or was not called.
NewDate(prevDate, lm, r) == IF r = "nil" THEN lm ELSE prevDate

\* checkUpdates, up to the call of updateFromWeb: the HEAD request, the
\* parsing of its Last-Modified and the comparison with prevDate.
checkUpdatesByDate ==
  /\ pc = "checkUpdates"
  /\ resp' = NoResp
  /\ data' = None
  /\ ret' = "none"
  /\ \E headOK \in BOOLEAN :
       LET lm == IF headOK THEN ParseTime(ServerLM) ELSE NoDate
           fetch == lm.ok /\ After(lm.date, currentDate)
           h == [hist EXCEPT !.netStarted = TRUE,
                             !.reached = hist.reached \/ headOK,
                             !.stale = FALSE,
                             !.failSince = hist.failSince \/ ~lm.ok]
       IN /\ cycle' = [CycleOf(scheme, TRUE) EXCEPT !.startDate = currentDate,
                                                    !.lm = lm]
          /\ pc' = IF fetch THEN "get" ELSE "sleep"
          /\ hist' = IF fetch THEN h
                               ELSE EndCycle(h, IF lm.ok THEN "ok" ELSE "fail")
  /\ UNCHANGED <<currentDate, checkInterval, scheme, initialDate, fs, readable, val, hdrs,
                 lmIn304>>

\* updateFromWeb, lines 281-285: the GET, without conditional headers.
GetByDate ==
  /\ pc = "get"
  /\ cycle' = [cycle EXCEPT !.gets = cycle.gets + 1, !.req = NoReq]
  /\ \E doOK \in BOOLEAN :
       IF doOK
         THEN /\ resp' = ServerGet(NoReq)
              /\ pc' = "readBody"
              /\ ret' = ret
              /\ hist' = [hist EXCEPT !.netStarted = TRUE, !.reached = TRUE]
         ELSE /\ resp' = resp
              /\ pc' = "sleep"
              /\ ret' = "err"
              /\ hist' = EndCycle([hist EXCEPT !.netStarted = TRUE,
                                               !.failSince = TRUE], "fail")
  /\ UNCHANGED <<currentDate, checkInterval, scheme, initialDate, fs, readable, val, hdrs,
                 lmIn304, data>>

\* keepCurrent, lines 251-252: checkUpdates' result becomes currentDate,
\* then time.Sleep(c.checkInterval) and the next cycle.
SleepByDate ==
  /\ pc = "sleep"
  /\ currentDate' = NewDate(currentDate, cycle.lm.date, ret)
  /\ pc' = "checkUpdates"
  /\ hist' = [hist EXCEPT !.pause = checkInterval]
  /\ UNCHANGED <<checkInterval, scheme, initialDate, fs, readable, val, hdrs, lmIn304, resp,
                 data, ret, cycle>>

----------------------------------------------------------------------------
\* The remote resource changes (the tests' val = advance(val)).
ServerChange ==
  /\ val < MaxVal
  /\ val' = val + 1
  /\ hist' = [hist EXCEPT !.sinceChange = 0, !.stale = TRUE, !.failSince = FALSE,
                          !.heal = Min(hist.heal, 1)]
  /\ UNCHANGED <<currentDate, checkInterval, pc, scheme, initialDate, fs, readable, hdrs, lmIn304, resp,
                 data, ret, cycle>>

\* The server starts sending other validators (the tests' lastModified = ""
\* and etag = "a").  Only the requests read them, so the change is taken
\* where the next step of the program is a request.
ServerHeaders ==
  /\ pc \in {"checkUpdates", "get"}
  /\ hist.hdrChanges < MaxHeaderChanges
  /\ \E h \in SUBSET {"lm", "etag"}, in304 \in BOOLEAN :
       /\ h # hdrs
       /\ ServerConfig(h, in304)
       /\ hdrs' = h
       /\ lmIn304' = in304
  /\ hist' = [hist EXCEPT !.hdrChanges = hist.hdrChanges + 1]
  /\ UNCHANGED <<currentDate, checkInterval, pc, scheme, initialDate, fs, readable, val, resp, data, ret,
                 cycle>>

\* The steps of the program: Open, then readInitial and keepCurrent's loop.
Program ==
  \/ Open
  \/ readInitial
  \/ checkUpdates
  \/ Get
  \/ ReadBody
  \/ Callback
  \/ OpenTmp
  \/ WriteTmp
  \/ OpenDst
  \/ WriteDst
  \/ Remove
  \/ Rename
  \/ Sleep

Next == Program \/ ServerChange

Spec == Init /\ [][Next]_vars

\* keepCurrent's goroutine keeps running: every call it makes returns, with
\* a result or an error, and the sleep ends.  The resource stays the same:
\* the loop's progress does not depend on what it fetches.
SpecFair == Init /\ [][Program]_vars /\ WF_vars(Program)

\* The program with a server whose resource stays the same while the
\* validators it sends change.
SpecHeaders == Init /\ [][Program \/ ServerHeaders]_vars

\* The date-comparing poller.
NextByDate ==
  \/ Open
  \/ readInitial
  \/ checkUpdatesByDate
  \/ GetByDate
  \/ ReadBody
  \/ Callback
  \/ OpenTmp
  \/ WriteTmp
  \/ OpenDst
  \/ WriteDst
  \/ Remove
  \/ Rename
  \/ SleepByDate
  \/ ServerChange

SpecByDate == Init /\ [][NextByDate]_vars

\* Open alone, over all the intervals.
SpecIntervals == InitIntervals /\ [][Open]_vars
----------------------------------------------------------------------------
(* Properties *)

\* The program is between two cycles: the cycle's record is complete.
BetweenCycles == pc \in {"sleep", "checkUpdates"}

\* The cycle got a full (non-304) response.
FullResponse == resp.status = 200

\* The cache file holds the content it had when the cycle began, or the
\* whole body of this cycle's response.
OldOrNew ==
  \/ cacheFile = cycle.startFile
  \/ FullResponse /\ cacheFile = File(resp.body)

\* C1 (as claimed): at the end of a cycle with a full response in which
\* onUpdate returned an error, the cache file and the scheme's token are
\* what they were when the cycle began.
C1_CallbackErrorKeepsFileAndToken ==
  (pc = "sleep" /\ FullResponse /\ cycle.cbRes = "err")
    => (cacheFile = cycle.startFile /\ scheme.token = cycle.startToken)

\* C2 (as claimed): whatever file a reader finds at the cache path, at any
\* step, holds the complete previous content or the complete new content.
C2_ReaderSeesOldOrNew == cacheFile.exists => OldOrNew

\* C2 (amended): a file at the cache path holds the complete previous or the
\* complete new content on every path but the fallback; on the fallback
\* path (the temporary file could not be created or written) the cache file
\* is truncated and rewritten in place, and may also hold a strict prefix
\* of the new content, the empty one included.
C2_OldOrNewExceptFallback ==
  cacheFile.exists =>
    \/ OldOrNew
    \/ /\ cycle.fellBack
       /\ pc \in {"writeDst", "sleep", "checkUpdates"}
       /\ cacheFile.data \in StrictPrefixes(resp.body)

\* C2 witness: a cycle on the temporary-file path has replaced an existing
\* cache file by the new content.
C2_Witness ==
  /\ pc = "sleep"
  /\ ~cycle.fellBack
  /\ cycle.startFile.exists
  /\ cacheFile # cycle.startFile
  /\ cacheFile = File(resp.body)

\* C3 (as claimed): once a file exists at the cache path, one exists in
\* every later state.
C3_FileNeverMissing == [][cacheFile.exists => cacheFile'.exists]_vars

\* C3 (amended): a file at the cache path goes missing only by the
\* successful os.Remove of updateFromWeb, which leads to the rename; so it
\* is missing between remove and rename and after a failed rename, and is
\* never missing after a cycle that failed at the remove step or took the
\* fallback path.
C3_MissingOnlyByRemove ==
  [][(cacheFile.exists /\ ~cacheFile'.exists)
       => (pc = "remove" /\ pc' = "rename")]_vars

\* C3 witness: between remove and rename the file that existed is missing.
C3_Witness ==
  /\ pc = "rename"
  /\ cycle.startFile.exists
  /\ ~cacheFile.exists

\* C4 (as claimed): between cycles, a cache file that exists holds the bytes
\* most recently accepted by onUpdate.
C4_FileIsLastAccepted ==
  (BetweenCycles /\ cacheFile.exists)
    => (hist.lastAccepted.some /\ cacheFile.data = hist.lastAccepted.bytes)

\* C4 (amended): between cycles, a cache file that exists holds the bytes
\* most recently accepted by onUpdate, provided those bytes were committed:
\* they were the existing file accepted at the initial load, or the cycle
\* that accepted them went on to replace or rewrite the cache file without
\* error.
C4_FileIsLastCommitted ==
  (BetweenCycles /\ cacheFile.exists /\ hist.committed)
    => (hist.lastAccepted.some /\ cacheFile.data = hist.lastAccepted.bytes)

\* C4 witness: a cycle has accepted and committed new bytes over an
\* existing file.
C4_Witness ==
  /\ pc = "sleep"
  /\ hist.committed
  /\ cycle.cbRes = "ok"
  /\ cycle.startFile.exists
  /\ cacheFile # cycle.startFile
  /\ hist.lastAccepted = Some(cacheFile.data)

\* C5 (as claimed): at the end of a cycle with a full response whose
\* callback did not fail but which ended in an error (body read, temporary
\* file, remove, rename), the scheme's token is what it was when the cycle
\* began.
C5_TokenKeptOnFailure ==
  (pc = "sleep" /\ FullResponse /\ cycle.cbRes # "err" /\ ret = "err")
    => scheme.token = cycle.startToken

\* C6 (as claimed): a cycle with a full response invokes the callback
\* exactly once, with the response's body; a cycle answered 304 invokes it
\* zero times.
C6_OncePerFullResponse ==
  pc = "sleep" =>
    /\ FullResponse => (cycle.cb = 1 /\ hist.lastRead = Some(resp.body))
    /\ resp.status = 304 => cycle.cb = 0

\* C6 (amended): a cycle invokes the callback exactly once, with the
\* response's body, if the response is full and its body was read without
\* error, and zero times otherwise (304, or the read of the body failed).
C6_OncePerBodyRead ==
  pc = "sleep" =>
    /\ cycle.cb = (IF FullResponse /\ data.some THEN 1 ELSE 0)
    /\ cycle.cb = 1 => hist.lastRead = Some(resp.body)

\* C6 witness: with the entity-tag scheme, the change to version 2 has been
\* given to the callback and a later cycle is answered 304.
C6_Witness ==
  /\ pc = "sleep"
  /\ scheme.kind = "etag"
  /\ resp.status = 304
  /\ cycle.cb = 0
  /\ val = 2
  /\ hist.lastRead = Some(Body(2))

\* The tests look at the callback's data 150 ms after a change, with an
\* interval of 50 ms.
ThreeIntervals == 3

\* C7: three cycles after the remote value last changed (or after the
\* start), with no failed request or callback since, the data last given to
\* the callback is the remote's current value.
C7_CurrentWithinThreeIntervals ==
  (hist.sinceChange >= ThreeIntervals /\ ~hist.failSince)
    => hist.lastRead = Some(Body(val))

\* C7 witness: three cycles after the change to version 2, all successful.
C7_Witness ==
  /\ hist.sinceChange >= ThreeIntervals
  /\ ~hist.failSince
  /\ val = 2
  /\ hist.lastRead = Some(Body(2))

\* C8: no network request is issued before readInitial has returned; and
\* when the first one is about to be issued, the callback has been invoked
\* exactly once, with the bytes of the cache file, if a readable cache file
\* existed, and not at all if no cache file existed.
C8_InitialLoadBeforeNetwork ==
  /\ pc \in {"open", "readInitial", "failed"} => ~hist.netStarted
  /\ (pc = "checkUpdates" /\ ~hist.netStarted) =>
       /\ (cycle.startFile.exists /\ readable) =>
            (hist.nCalls = 1 /\ hist.lastRead = Some(cycle.startFile.data))
       /\ ~cycle.startFile.exists => hist.nCalls = 0

\* C8 witness: the first request is about to be issued and the callback has
\* been given the existing file.
C8_Witness ==
  /\ pc = "checkUpdates"
  /\ ~hist.netStarted
  /\ cycle.startFile = File(OldContent)
  /\ hist.nCalls = 1
  /\ hist.lastRead = Some(OldContent)

\* C9: at the end of a cycle with a full response in which updateFromWeb
\* returned no error, the cache file exists and holds the response's body.
C9_SuccessMeansNewContent ==
  (pc = "sleep" /\ FullResponse /\ ret = "nil") => cacheFile = File(resp.body)

\* C9 witness: a cycle has succeeded on the fallback path.
C9_Witness ==
  /\ pc = "sleep"
  /\ FullResponse
  /\ ret = "nil"
  /\ cycle.fellBack
  /\ cacheFile = File(resp.body)

\* C10 (as claimed): a cycle answered 304 invokes no callback, performs no
\* file operation and leaves the scheme's token as it was.
C10_NotModifiedChangesNothing ==
  (pc = "sleep" /\ resp.status = 304) =>
    /\ cycle.cb = 0
    /\ cycle.fileOps = 0
    /\ cacheFile = cycle.startFile
    /\ scheme.token = cycle.startToken

----------------------------------------------------------------------------
(* Scheme selection *)

\* The scheme the server's present headers would select.
PresentChoice ==
  IF "lm" \in hdrs THEN "lastModified"
  ELSE IF "etag" \in hdrs THEN "etag"
  ELSE "noop"

\* C11: the choice of scheme is sticky.  A scheme, once set, never changes
\* its variant; a cycle sends a HEAD request exactly when it begins without
\* a scheme; and a cycle whose HEAD request fails ends with the scheme still
\* unset.  This holds whatever fails later and whatever validators the
\* server sends later.
C11_SchemeIsSticky ==
  [][/\ (scheme.kind # "nil" => scheme'.kind = scheme.kind)
     /\ (pc = "checkUpdates" /\ pc' # "checkUpdates" =>
           (cycle'.probed <=> scheme.kind = "nil"))
     /\ (pc = "checkUpdates" /\ cycle'.probed /\ pc' = "sleep" =>
           scheme'.kind = "nil")]_vars

\* C11 witness: after a failure and after the server has changed its
\* validators to ones that would select another variant, a cycle without a
\* HEAD request has ended with the variant selected at first.
C11_Witness ==
  /\ pc = "sleep"
  /\ scheme.kind # "nil"
  /\ ~cycle.probed
  /\ cycle.gets = 1
  /\ hist.failSince
  /\ hist.hdrChanges = 1
  /\ PresentChoice # scheme.kind

\* C12: the variant selected by a successful probe is determined by the
\* probe's headers alone: lastModified when Last-Modified is sent (with or
\* without ETag), otherwise etag when ETag is sent, otherwise no condition.
C12_SelectionByHeaders ==
  [][scheme.kind = "nil" /\ scheme'.kind # "nil" =>
       scheme'.kind = PresentChoice]_vars

\* C12 witness: a server sending both headers has had lastModified selected.
C12_Witness ==
  /\ scheme.kind = "lastModified"
  /\ hdrs = {"lm", "etag"}
  /\ cycle.probed

\* C13: with the unconditional scheme, every cycle sends one GET without a
\* conditional header, the answer is never 304, and unless reading the body
\* fails the callback is invoked once with the whole body.
C13_NoopAlwaysFetches ==
  scheme.kind = "noop" /\ BetweenCycles =>
    /\ cycle.gets = 1
    /\ cycle.req = NoReq
    /\ (resp # NoResp =>
          /\ resp.status = 200
          /\ (data.some \/ ret = "nil" =>
                /\ cycle.cb = 1
                /\ hist.lastRead = Some(resp.body)))

\* C13 witness: a later cycle of the unconditional scheme has given the
\* callback a body identical to what the cache file already held.
C13_Witness ==
  /\ scheme.kind = "noop"
  /\ pc = "sleep"
  /\ ~cycle.probed
  /\ cycle.cb = 1
  /\ cycle.startFile = File(resp.body)

\* C14: an unreachable URL is harmless.  Open's error never comes from the
\* network; and with no cache file at startup and no request ever answered,
\* the callback has not been invoked, there is no cache file, no scheme is
\* set, and the loop is at a probe or asleep with its next step enabled.
C14_UnreachableIsHarmless ==
  /\ (pc = "failed" => ~hist.netStarted)
  /\ (~hist.hadFile /\ ~hist.reached /\ pc # "failed" =>
        /\ hist.nCalls = 0
        /\ ~cacheFile.exists
        /\ ~tmpFile.exists
        /\ scheme = NilScheme
        /\ pc \in {"open", "readInitial", "checkUpdates", "sleep"}
        /\ ENABLED Program)

\* C14 witness: several probes in a row have failed and the loop sleeps.
C14_Witness ==
  /\ ~hist.hadFile
  /\ ~hist.reached
  /\ hist.netStarted
  /\ pc = "sleep"
  /\ hist.sinceChange = SatCount

----------------------------------------------------------------------------
(* The loop *)

\* The cycle ended in a failure: the probe failed, or updateFromWeb
\* returned an error.
CycleFailed == ret = "err" \/ (cycle.probed /\ scheme.kind = "nil")

\* C15: the loop never gives up.  After a cycle that ended in a failure the
\* loop comes to the start of a further cycle, and from the start of a cycle
\* it goes on to send that cycle's request.
C15_FailureIsFollowedByACycle ==
  /\ ((pc = "sleep" /\ CycleFailed) ~> (pc = "checkUpdates"))
  /\ ((pc = "checkUpdates") ~> (pc \in {"get", "sleep"}))
  /\ ((pc = "get") ~> (cycle.gets = 1))

\* C15 witness: a further cycle is about to start after several cycles of
\* which the last has failed in updateFromWeb.
C15_Witness ==
  /\ pc = "checkUpdates"
  /\ ret = "err"
  /\ hist.failSince
  /\ hist.sinceChange = SatCount

\* C16: once Open has taken its argument, the interval the loop sleeps for
\* is the argument when that is positive and one minute otherwise, and so
\* it is always positive.
C16_EffectiveInterval ==
  pc # "open" =>
    /\ checkInterval = (IF hist.arg > 0 THEN hist.arg ELSE defaultCheckInterval)
    /\ checkInterval > 0

\* C16 witness: Open was given a negative interval and the loop's interval
\* is one minute.
C16_Witness ==
  /\ pc = "readInitial"
  /\ hist.arg < 0
  /\ checkInterval = defaultCheckInterval

----------------------------------------------------------------------------
(* Failures *)

\* C17: the cache heals.  After a cycle that got new content and failed at
\* the callback or at the commit, SatCount cycles in a row without any
\* failure and without a remote change leave the callback invoked with the
\* server's current content and the cache file holding it.
C17_SelfHealing ==
  BetweenCycles /\ hist.heal > SatCount =>
    /\ hist.lastRead = Some(Body(val))
    /\ cacheFile = File(Body(val))

\* The cycle's GET failed in transport: it was sent and got no response.
TransportFailure == BetweenCycles /\ cycle.gets = 1 /\ resp = NoResp

\* C18: a cycle whose GET fails in transport changes nothing: the scheme's
\* variant and token are those of the cycle's start, the callback was not
\* invoked, no file operation was made and the cache file is as it was.
C18_TransportFailureChangesNothing ==
  TransportFailure =>
    /\ ret = "err"
    /\ scheme.kind = cycle.startKind
    /\ scheme.token = cycle.startToken
    /\ cycle.cb = 0
    /\ cycle.fileOps = 0
    /\ cacheFile = cycle.startFile

\* C18 witness: the GET of a cycle that began with a token and a cache file
\* has failed.
C18_Witness ==
  /\ TransportFailure
  /\ pc = "sleep"
  /\ scheme.token # Empty
  /\ cacheFile.exists
  /\ ~cycle.probed

----------------------------------------------------------------------------
(* Tokens *)

\* C19: the first If-Modified-Since of the lastModified scheme is the cache
\* file's modification time when the file was there and the initial
\* callback accepted it, and the zero time otherwise.
C19_InitialTokenIsFileDate ==
  pc = "get" /\ cycle.probed /\ scheme.kind = "lastModified" =>
    prepareRequest(scheme).ims =
      Format(IF hist.initAccepted THEN CacheModTime ELSE ZeroTime)

\* C20: a scheme never holds a request back.  Every cycle that has a scheme
\* sends one GET; the request carries, in the scheme's header, the token the
\* scheme held when the cycle began, and no other conditional header; and
\* until a response arrives the scheme still holds that token.
C20_NoLocalSuppression ==
  BetweenCycles /\ cycle.startKind # "nil" =>
    /\ cycle.gets = 1
    /\ cycle.req.ims =
         (IF cycle.startKind = "lastModified" THEN cycle.startToken ELSE Empty)
    /\ cycle.req.inm =
         (IF cycle.startKind = "etag" THEN cycle.startToken ELSE Empty)
    /\ (resp = NoResp => scheme.token = cycle.startToken)

\* C20 witness: a cycle has sent the entity tag that the cycle before it
\* had already sent.
C20_Witness ==
  /\ pc = "sleep"
  /\ cycle.startKind = "etag"
  /\ cycle.gets = 1
  /\ cycle.req.inm # Empty
  /\ cycle.req = cycle.prevReq

----------------------------------------------------------------------------
(* The sleep *)

\* C21: every cycle ends with a sleep of the effective interval.  A cycle
\* that has ended, whatever its outcome, leaves the loop at the sleep; and
\* wherever else the loop is after a cycle has ended, it has slept since
\* then for Open's interval if that was positive and for one minute if not.
C21_SleepAfterEveryCycle ==
  /\ (hist.pause = 0 <=> pc = "sleep")
  /\ (pc # "sleep" /\ hist.pause # NotYet =>
        hist.pause = (IF hist.arg > 0 THEN hist.arg ELSE defaultCheckInterval))

\* C21 witness: after a cycle that failed at the commit the loop has slept
\* for the tests' interval and is about to start the next cycle.
C21_Witness ==
  /\ pc = "checkUpdates"
  /\ ret = "err"
  /\ cycle.cbRes = "ok"
  /\ hist.pause = TestInterval

----------------------------------------------------------------------------
(* The date-comparing poller *)

\* In this cycle the fetch, the callback and the commit have all succeeded.
AllSucceeded ==
  /\ cycle.gets = 1
  /\ resp.status = 200
  /\ data.some
  /\ cycle.cbRes = "ok"
  /\ hist.committed

\* C22: in the date-comparing poller a cycle fetches, and at most once, only
\* when its probe succeeded with a Last-Modified that parses and is strictly
\* later than the stored date; the stored date does not move during the
\* cycle; and after the cycle it is that Last-Modified when the fetch, the
\* callback and the commit all succeeded, and the date of before otherwise.
C22_DateAdvancesOnlyOnSuccess ==
  /\ cycle.gets <= 1
  /\ (cycle.gets = 1 => cycle.lm.ok /\ cycle.lm.date > cycle.startDate)
  /\ (pc \notin {"open", "readInitial", "failed", "checkUpdates"} =>
        currentDate = cycle.startDate)
  /\ (pc = "checkUpdates" /\ hist.pause # NotYet =>
        currentDate = (IF AllSucceeded THEN cycle.lm.date ELSE cycle.startDate))

\* C22 witness: after an earlier cycle had advanced the date, a cycle whose
\* probe showed a later Last-Modified and whose callback accepted the data
\* has failed at the commit, and the stored date is the date of before.
C22_Witness ==
  /\ pc = "checkUpdates"
  /\ ret = "err"
  /\ cycle.cbRes = "ok"
  /\ cycle.lm.ok
  /\ cycle.lm.date > currentDate
  /\ currentDate = cycle.startDate
  /\ currentDate # ZeroTime
====
